---- MODULE Spec2Model ----
(***************************************************************************)
(* A model of daomop/sns.py: the weighted-quantile combiner, the           *)
(* up-/down-sampling helpers, the rate grid and the tiled shift-and-stack  *)
(* loop of shift().                                                        *)
(*                                                                         *)
(* Numbers.  A floating-point number is modelled as an extended rational   *)
(* <<n, d>>: d > 0 and gcd(n, d) = 1 for a finite value, <<0, 0>> for      *)
(* not-a-number, <<1, 0>> and <<-1, 0>> for the two infinities.            *)
(* Arithmetic follows IEEE-754 on the special values (x/0, 0/0, inf-inf,   *)
(* comparisons with nan are false) and is exact on finite values: the      *)
(* rounding of a finite result is not modelled.                            *)
(*                                                                         *)
(* Arrays.  A 2-D array is a sequence of rows, each a sequence of numbers; *)
(* a stack (3-D) is a sequence of 2-D arrays.  Python indices are 0-based: *)
(* At(A, y, x) reads A[y, x].                                              *)
(***************************************************************************)
EXTENDS Integers, Sequences, FiniteSets, TLC

VARIABLES
    call,            \* the arguments of the pending call of a pure function
    ret,             \* what that call returned: [exc, val]
    hdus,            \* shift(): the input frames
    shape,           \* shift(): reference_hdu[1].data.shape
    rf,              \* shift(): the up-sampling factor
    stacking_mode,   \* shift(): the name of the combiner
    section_size,    \* shift(): the tile stride
    image_array,     \* shift(): the output image
    variance_array,  \* shift(): the output variance
    writes,          \* shift(): how often each output pixel was assigned
    todo,            \* shift(): the tiles <<yo, xo>> still to process, in loop order
    outs_of,         \* shift(): the frames appended to outs in the last tile
    outs,            \* shift(): the up-sampled, shifted images of the last tile
    variances,       \* shift(): the up-sampled, shifted variances of the last tile
    stacked_variance, \* shift(): the combined variance of the last tile, up-sampled
    pc,              \* "idle", "tiles", "done" or "raised"
    exc              \* the exception that ended the call, or "none"

vars == <<call, ret, hdus, shape, rf, stacking_mode, section_size,
          image_array, variance_array, writes, todo, outs_of, outs, variances,
          stacked_variance, pc, exc>>

shift_vars == <<hdus, shape, rf, stacking_mode, section_size,
                image_array, variance_array, writes, todo, outs_of, outs, variances,
                stacked_variance>>

-----------------------------------------------------------------------------
(* Extended rationals *)

Abs(i) == IF i < 0 THEN -i ELSE i

Sgn(i) == IF i < 0 THEN -1 ELSE IF i > 0 THEN 1 ELSE 0

Min2(a, b) == IF a <= b THEN a ELSE b

Max2(a, b) == IF a >= b THEN a ELSE b

RECURSIVE GCD(_, _)
GCD(a, b) == IF b = 0 THEN a ELSE GCD(b, a % b)

nan == <<0, 0>>

inf == <<1, 0>>

Q(n, d) ==
    IF d = 0 THEN <<Sgn(n), 0>>
    ELSE IF d = 1 THEN <<n, 1>>
    ELSE LET s == IF d < 0 THEN -1 ELSE 1
             g == GCD(Abs(n), Abs(d))
         IN  <<(s * n) \div g, (s * d) \div g>>

I(n) == <<n, 1>>

isnan(x) == x = nan

isinf(x) == x[2] = 0 /\ x[1] # 0

isfinite(x) == x[2] > 0

Neg(x) == <<-x[1], x[2]>>

Add(x, y) ==
    IF isnan(x) \/ isnan(y) THEN nan
    ELSE IF isinf(x) THEN (IF isinf(y) /\ y # x THEN nan ELSE x)
    ELSE IF isinf(y) THEN y
    ELSE Q(x[1] * y[2] + y[1] * x[2], x[2] * y[2])

Sub(x, y) == Add(x, Neg(y))

Mul(x, y) ==
    IF isnan(x) \/ isnan(y) THEN nan
    ELSE IF isinf(x) \/ isinf(y)
         THEN (IF x[1] = 0 \/ y[1] = 0 THEN nan ELSE <<Sgn(x[1]) * Sgn(y[1]), 0>>)
    ELSE Q(x[1] * y[1], x[2] * y[2])

\* x / y: a finite non-zero value over zero is an infinity, 0/0 and inf/inf are nan
Div(x, y) ==
    IF isnan(x) \/ isnan(y) THEN nan
    ELSE IF isinf(y) THEN (IF isinf(x) THEN nan ELSE I(0))
    ELSE IF isinf(x) THEN <<x[1] * (IF y[1] < 0 THEN -1 ELSE 1), 0>>
    ELSE Q(x[1] * y[2], x[2] * y[1])

\* x < y and x <= y; both are false when either side is nan
Lt(x, y) ==
    /\ ~isnan(x) /\ ~isnan(y)
    /\ IF isinf(x) \/ isinf(y)
       THEN x # y /\ (x = Neg(inf) \/ y = inf)
       ELSE x[1] * y[2] < y[1] * x[2]

Le(x, y) == ~isnan(x) /\ ~isnan(y) /\ (x = y \/ Lt(x, y))

\* Python's int(x) of a finite x: truncation toward zero
int(x) == Sgn(x[1]) * (Abs(x[1]) \div x[2])

-----------------------------------------------------------------------------
(* Sequences and arrays *)

RECURSIVE SumSeq(_)
SumSeq(s) == IF s = <<>> THEN I(0) ELSE Add(Head(s), SumSeq(Tail(s)))

Rows(A) == Len(A)

Cols(A) == IF Len(A) = 0 THEN 0 ELSE Len(A[1])

At(A, y, x) == A[y + 1][x + 1]

\* s and A themselves, as a tuple and as a tuple of tuples: the elements are
\* computed once, here, and not again at each later read
vector(s) == s \o <<>>

array(A) ==
    LET rows == A \o <<>>
    IN  [y \in 1..Len(rows) |-> rows[y] \o <<>>] \o <<>>

\* the values of a stack at one pixel, along axis 0
Column(stack, y, x) == vector([k \in 1..Len(stack) |-> At(stack[k], y, x)])

\* a 2-D array of the shape of the stack's planes, computed pixel by pixel
PerPixel(stack, F(_, _)) ==
    array([y \in 1..Rows(stack[1]) |-> [x \in 1..Cols(stack[1]) |-> F(y - 1, x - 1)]])

\* s without its nan entries, order kept
SelectNotNan(s) == SelectSeq(s, LAMBDA v : ~isnan(v))

-----------------------------------------------------------------------------
(* numpy reductions along the stack axis, at one pixel *)

\* np.argsort along axis 0: ascending, nan last, ties in index order
argsort(col) ==
    LET n == Len(col)
        before(i, j) == \/ Lt(col[i], col[j])
                        \/ (~isnan(col[i]) /\ isnan(col[j]))
                        \/ (~Lt(col[j], col[i]) /\ ~(isnan(col[i]) /\ ~isnan(col[j])) /\ i < j)
        rank(i) == Cardinality({j \in 1..n : before(j, i)})
    IN  vector([r \in 1..n |-> CHOOSE i \in 1..n : rank(i) = r - 1])

take_along_axis(col, sorter) == vector([r \in 1..Len(sorter) |-> col[sorter[r]]])

\* np.nancumsum / np.nansum: a nan counts as zero
NanToZero(v) == IF isnan(v) THEN I(0) ELSE v

nancumsum(col) == vector([r \in 1..Len(col) |-> SumSeq([j \in 1..r |-> NanToZero(col[j])])])

nansum(col) == SumSeq([j \in 1..Len(col) |-> NanToZero(col[j])])

\* np.nanmean: the mean of the entries that are not nan; nan when there is none
nanmean(col) ==
    LET s == SelectNotNan(col)
    IN  Div(SumSeq(s), I(Len(s)))

\* np.nanmax: the largest entry that is not nan; nan when there is none
nanmax(col) ==
    LET s == SelectNotNan(col)
    IN  IF s = <<>> THEN nan
        ELSE s[CHOOSE i \in 1..Len(s) : \A j \in 1..Len(s) : Le(s[j], s[i])]

\* np.nanmedian: the median of the entries that are not nan (the mean of the two
\* middle ones for an even count); nan when there is none
nanmedian(col) ==
    LET s == SelectNotNan(col)
        t == take_along_axis(s, argsort(s))
        n == Len(t)
    IN  IF n = 0 THEN nan
        ELSE IF n % 2 = 1 THEN t[(n + 1) \div 2]
        ELSE Div(Add(t[n \div 2], t[(n \div 2) + 1]), I(2))

\* np.argmin of a boolean column: the first False, or 0 when every entry is True
argmin(bools) ==
    IF \E i \in 1..Len(bools) : ~bools[i]
    THEN (CHOOSE i \in 1..Len(bools) : ~bools[i] /\ \A j \in 1..(i - 1) : bools[j]) - 1
    ELSE 0

-----------------------------------------------------------------------------
(* weighted_quantile, at one pixel and on a stack *)

ZeroInf(w) == IF isinf(w) THEN I(0) ELSE w

weighted_quantile_pixel(col, quantile, wcol) ==
    LET sorter == argsort(col)
        values == take_along_axis(col, sorter)
        sorted_weight == take_along_axis(wcol, sorter)
        sample_weight == vector([r \in 1..Len(col) |-> ZeroInf(sorted_weight[r])])
        cum == nancumsum(sample_weight)
        total == nansum(sample_weight)
        weighted_quantiles ==
            vector([r \in 1..Len(col) |->
                Div(Sub(cum[r], Mul(Q(1, 2), sample_weight[r])), total)])
        ind == argmin([r \in 1..Len(col) |-> Le(weighted_quantiles[r], quantile)])
    IN  values[ind + 1]

weighted_quantile(values, quantile, sample_weight) ==
    PerPixel(values, LAMBDA y, x :
        weighted_quantile_pixel(Column(values, y, x), quantile, Column(sample_weight, y, x)))

-----------------------------------------------------------------------------
(* Resampling *)

\* np.repeat(np.repeat(A, rf, axis=0), rf, axis=1): a fresh array
repeat(A, f) ==
    array([Y \in 1..(f * Rows(A)) |->
        [X \in 1..(f * Cols(A)) |-> A[((Y - 1) \div f) + 1][((X - 1) \div f) + 1]]])

\* output_array after up_sample_2d(output_array, input_array, rf); output_array
\* has at least rf times the rows and columns of input_array.  The rf*rf strided
\* assignments output_array[y:y_f:rf, x:x_f:rf] = input_array write pixel (Y, X),
\* Y < y_f and X < x_f, exactly once, in the pass with y = Y % rf and x = X % rf.
up_sample_2d(output_array, input_array, f) ==
    LET y_f == f * Rows(input_array)
        x_f == f * Cols(input_array)
    IN  array([Y \in 1..Rows(output_array) |->
            [X \in 1..Cols(output_array) |->
                IF Y - 1 < y_f /\ X - 1 < x_f
                THEN LET y == (Y - 1) % f
                         x == (X - 1) % f
                     IN  At(input_array, ((Y - 1) - y) \div f, ((X - 1) - x) \div f)
                ELSE output_array[Y][X]]])

\* np.zeros(shape)
zeros(h, w) == array([y \in 1..h |-> [x \in 1..w |-> I(0)]])

\* down_sample_2d averaging over the fr rows of a block only, not over its
\* fr*fr pixels (the second .mean(axis=1) left out and the columns summed)
down_sample_2d_row_mean(inp, f) ==
    LET new_shape == <<Rows(inp) \div f, Cols(inp) \div f>>
    IN  IF new_shape[1] = 0 \/ new_shape[2] = 0
        THEN [exc |-> "ZeroDivisionError", val |-> <<>>]
        ELSE
        LET fr == <<Rows(inp) \div new_shape[1], Cols(inp) \div new_shape[2]>>
        IN  [exc |-> "none",
             val |-> array([i \in 1..new_shape[1] |-> [j \in 1..new_shape[2] |->
                 Div(SumSeq([k \in 1..(fr[1] * fr[2]) |->
                               At(inp, (i - 1) * fr[1] + ((k - 1) \div fr[2]),
                                       (j - 1) * fr[2] + ((k - 1) % fr[2]))]),
                     I(fr[1]))]])]

\* down_sample_2d(inp, fr) of a non-empty array inp: [exc, val].
down_sample_2d(inp, f) ==
    LET new_shape == <<Rows(inp) \div f, Cols(inp) \div f>>
    IN  IF new_shape[1] = 0 \/ new_shape[2] = 0
        THEN [exc |-> "ZeroDivisionError", val |-> <<>>]
        ELSE
        LET fr == <<Rows(inp) \div new_shape[1], Cols(inp) \div new_shape[2]>>
        IN  IF new_shape[1] * fr[1] * new_shape[2] * fr[2] # Rows(inp) * Cols(inp)
            THEN [exc |-> "ValueError", val |-> <<>>]
            ELSE [exc |-> "none",
                  val |-> array([i \in 1..new_shape[1] |-> [j \in 1..new_shape[2] |->
                      Div(SumSeq([k \in 1..(fr[1] * fr[2]) |->
                                    At(inp, (i - 1) * fr[1] + ((k - 1) \div fr[2]),
                                            (j - 1) * fr[2] + ((k - 1) % fr[2]))]),
                          I(fr[1] * fr[2]))]])]

-----------------------------------------------------------------------------
(* shift_rates *)

\* np.linspace(start, stop, num) for num >= 0
linspace(start, stop, num) ==
    [i \in 1..num |->
        IF num = 1 THEN I(start)
        ELSE Add(I(start), Mul(I(i - 1), Q(stop - start, num - 1)))]

\* shift_rates counting int((max - min) / step) values, without the + 1
shift_rates_open(r_min, r_max, r_step, angle_min, angle_max, angle_step) ==
    LET n_angle == Max2(1, int(Q(angle_max - angle_min, angle_step)))
        n_rate == Max2(1, int(Q(r_max - r_min, r_step)))
        angles == linspace(angle_min, angle_max, n_angle)
        rs == linspace(r_min, r_max, n_rate)
    IN  [exc |-> "none",
         val |-> [k \in 1..(n_angle * n_rate) |->
                    [rate |-> rs[((k - 1) % n_rate) + 1],
                     angle |-> angles[((k - 1) \div n_rate) + 1]]]]

\* shift_rates(...) with integer arguments and non-zero steps: [exc, val]
shift_rates(r_min, r_max, r_step, angle_min, angle_max, angle_step) ==
    LET n_angle == int(Q(angle_max - angle_min, angle_step)) + 1
        n_rate == int(Q(r_max - r_min, r_step)) + 1
    IN  IF n_angle < 0 \/ (n_angle > 0 /\ n_rate < 0)
        THEN [exc |-> "ValueError", val |-> <<>>]
        ELSE
        LET angles == linspace(angle_min, angle_max, n_angle)
            rs == linspace(r_min, r_max, n_rate)
        IN  [exc |-> "none",
             val |-> [k \in 1..(n_angle * n_rate) |->
                        [rate |-> rs[((k - 1) % n_rate) + 1],
                         angle |-> angles[((k - 1) \div n_rate) + 1]]]]

-----------------------------------------------------------------------------
(* shift(): the tile geometry *)

padding == 130

\* STACKING_MODES.get(stacking_mode, STACKING_MODES['DEFAULT']), after None -> 'SUM'
STACKING_MODES(name) ==
    CASE name = "MEDIAN" -> "nanmedian"
      [] name = "MEAN" -> "nanmean"
      [] name = "SUM" -> "nansum"
      [] name = "None" -> "nansum"
      [] name = "MAX" -> "nanmax"
      [] name = "WEIGHTED_MEDIAN" -> "weighted_quantile"
      [] OTHER -> "nanmedian"

\* np.arange(0, n, step) for step >= 1
arange(n, step) == [k \in 1..((n + step - 1) \div step) |-> (k - 1) * step]

\* a tile whose padded input range starts one pixel late (o - padding + 1)
SectionShortPadding(o, n, size) ==
    LET c1 == Max2(0, o - padding + 1)
        p == Min2(n, o + size)
        c2 == Min2(n, p + padding)
        l == o - c1
        u == l + p - o
    IN  [o |-> o, c1 |-> c1, p |-> p, c2 |-> c2, l |-> l, u |-> u]

\* a tile whose output range ends one pixel late (o + size + 1)
SectionLongOutput(o, n, size) ==
    LET c1 == Max2(0, o - padding)
        p == Min2(n, o + size + 1)
        c2 == Min2(n, p + padding)
        l == o - c1
        u == l + p - o
    IN  [o |-> o, c1 |-> c1, p |-> p, c2 |-> c2, l |-> l, u |-> u]

\* one axis of a tile starting at o on an axis of length n: the output range
\* [o, p), the padded input range [c1, c2) and the interior window [l, u) of it
Section(o, n, size) ==
    LET c1 == Max2(0, o - padding)
        p == Min2(n, o + size)
        c2 == Min2(n, p + padding)
        l == o - c1
        u == l + p - o
    IN  [o |-> o, c1 |-> c1, p |-> p, c2 |-> c2, l |-> l, u |-> u]

\* the tiles <<yo, xo>> in the order of the two nested loops
Tiles(shp, size) ==
    LET ys == arange(shp[1], size)
        xs == arange(shp[2], size)
    IN  [k \in 1..(Len(ys) * Len(xs)) |->
            <<ys[((k - 1) \div Len(xs)) + 1], xs[((k - 1) % Len(xs)) + 1]>>]

\* A[y1:y2, x1:x2]
Crop(A, y1, y2, x1, x2) ==
    array([y \in 1..(y2 - y1) |-> [x \in 1..(x2 - x1) |-> At(A, y1 + y - 1, x1 + x - 1)]])

-----------------------------------------------------------------------------
(* shift(): one frame of one tile *)

\* the integer pixel shift <<dx, dy>> of a frame whose coordinate transform gives
\* the pixel displacement c2 - c1 = hdu.c
PixelShift(hdu, f) == <<int(Mul(I(f), hdu.c[1])), int(Mul(I(f), hdu.c[2]))>>

\* the skip test with >= in place of >
SkippedAtMargin(hdu, f) ==
    Abs(PixelShift(hdu, f)[1]) >= padding \/ Abs(PixelShift(hdu, f)[2]) >= padding

Skipped(hdu, f) ==
    Abs(PixelShift(hdu, f)[1]) > padding \/ Abs(PixelShift(hdu, f)[2]) > padding

\* the index range a Python slice lo:hi selects on an axis of length n
PySlice(lo, hi, n) ==
    LET a == Min2(n, Max2(0, IF lo < 0 THEN lo + n ELSE lo))
        b == Min2(n, Max2(0, IF hi < 0 THEN hi + n ELSE hi))
    IN  <<a, Max2(a, b)>>

\* the bounds with the two roles exchanged: the data moves by -off
AxisBoundsReversed(off, n) ==
    IF off < 0 THEN [dest |-> PySlice(-off, n, n), source |-> PySlice(0, n + off, n)]
    ELSE IF off > 0 THEN [dest |-> PySlice(0, n - off, n), source |-> PySlice(off, n, n)]
    ELSE [dest |-> PySlice(0, n, n), source |-> PySlice(0, n, n)]

\* dest_bounds and source_bounds of one axis of length n for the offset off
AxisBounds(off, n) ==
    IF off < 0 THEN [dest |-> PySlice(0, n + off, n), source |-> PySlice(-off, n, n)]
    ELSE IF off > 0 THEN [dest |-> PySlice(off, n, n), source |-> PySlice(0, n - off, n)]
    ELSE [dest |-> PySlice(0, n, n), source |-> PySlice(0, n, n)]

SliceLen(r) == r[2] - r[1]

\* numpy assigns a source to a destination whose length is the same on each axis,
\* or whose source has length one on that axis (broadcast)
Assignable(b) ==
    SliceLen(b.source) = SliceLen(b.dest) \/ SliceLen(b.source) = 1

\* rep after rep[dest] = rep[source] (numpy copies the source before it writes)
ShiftBy(rep, dx, dy) ==
    LET by == AxisBounds(dy, Rows(rep))
        bx == AxisBounds(dx, Cols(rep))
        src(i, b) == IF SliceLen(b.source) = 1 THEN b.source[1]
                     ELSE b.source[1] + (i - b.dest[1])
    IN  IF ~(Assignable(by) /\ Assignable(bx))
        THEN [exc |-> "ValueError", val |-> <<>>]
        ELSE [exc |-> "none",
              val |-> array([Y \in 1..Rows(rep) |-> [X \in 1..Cols(rep) |->
                  IF /\ by.dest[1] <= Y - 1 /\ Y - 1 < by.dest[2]
                     /\ bx.dest[1] <= X - 1 /\ X - 1 < bx.dest[2]
                  THEN At(rep, src(Y - 1, by), src(X - 1, bx))
                  ELSE rep[Y][X]]])]

-----------------------------------------------------------------------------
(* shift(): one tile *)

\* the indices of the frames of hdus that pass the skip test, in order
Kept(frames, f) ==
    SelectSeq(vector([k \in 1..Len(frames) |-> k]), LAMBDA k : ~Skipped(frames[k], f))

\* rep (plane = "image") or variance (plane = "variance") of one frame of the
\* tile, up-sampled and shifted: [exc, val]
Shifted(hdu, plane, f, sy, sx) ==
    ShiftBy(repeat(Crop(hdu[plane], sy.c1, sy.c2, sx.c1, sx.c2), f),
            PixelShift(hdu, f)[1], PixelShift(hdu, f)[2])

\* numpy.sum(~numpy.isnan(outs), axis=0) at one pixel
num_frames(col) == Len(SelectNotNan(col))

\* stacking_mode(outs, overwrite_input=True, axis=0) at one pixel, or
\* weighted_quantile(outs, 0.50001, 1./variances): only nanmedian takes the
\* keyword overwrite_input; nanmean, nansum and nanmax raise TypeError on it
TakesOverwriteInput(fn) == fn = "nanmedian"

Combine(fn, col, vcol) ==
    IF fn = "weighted_quantile"
    THEN weighted_quantile_pixel(col, Q(50001, 100000),
                                 [k \in 1..Len(vcol) |-> Div(I(1), vcol[k])])
    ELSE nanmedian(col)

\* the loop body for the tile at <<yo, xo>>: the exception raised, or the two
\* blocks assigned to image_array[yo:yp, xo:xp] and variance_array[yo:yp, xo:xp]
StackTile(frames, shp, f, mode, size, yo, xo) ==
    LET sy == Section(yo, shp[1], size)
        sx == Section(xo, shp[2], size)
        kept == Kept(frames, f)
        reps == vector([k \in 1..Len(kept) |-> Shifted(frames[kept[k]], "image", f, sy, sx)])
        vars_ == vector([k \in 1..Len(kept) |->
                            Shifted(frames[kept[k]], "variance", f, sy, sx)])
        outs_ == vector([k \in 1..Len(kept) |-> reps[k].val])
        variances_ == vector([k \in 1..Len(kept) |-> vars_[k].val])
        fn == STACKING_MODES(mode)
        first_bad == IF \E k \in 1..Len(kept) : reps[k].exc # "none"
                     THEN CHOOSE k \in 1..Len(kept) : reps[k].exc # "none"
                              /\ \A j \in 1..(k - 1) : reps[j].exc = "none"
                     ELSE Len(kept) + 1
        none == [exc |-> "none", sy |-> sy, sx |-> sx, outs_of |-> kept,
                 outs |-> outs_, variances |-> variances_, stacked_variance |-> <<>>,
                 image |-> <<>>, variance |-> <<>>]
    IN  IF \E k \in 1..Len(kept) : reps[k].exc # "none"
        THEN [none EXCEPT !.exc = "ValueError",
                          !.outs_of = SubSeq(kept, 1, first_bad - 1),
                          !.outs = SubSeq(outs_, 1, first_bad - 1),
                          !.variances = SubSeq(variances_, 1, first_bad - 1)]
        ELSE IF Len(kept) = 0
        THEN [none EXCEPT !.exc = "IndexError"]
        ELSE IF fn # "weighted_quantile" /\ ~TakesOverwriteInput(fn)
        THEN [none EXCEPT !.exc = "TypeError"]
        ELSE
        LET stacked_data ==
                PerPixel(outs_, LAMBDA y, x :
                    Combine(fn, Column(outs_, y, x), Column(variances_, y, x)))
            stacked_variance_ ==
                PerPixel(outs_, LAMBDA y, x :
                    Div(nanmean(Column(variances_, y, x)),
                        I(num_frames(Column(outs_, y, x)))))
            img == down_sample_2d(stacked_data, f)
            var == down_sample_2d(stacked_variance_, f)
        IN  IF img.exc # "none"
            THEN [none EXCEPT !.exc = img.exc, !.stacked_variance = stacked_variance_]
            ELSE [none EXCEPT
                    !.stacked_variance = stacked_variance_,
                    !.image = Crop(img.val, sy.l, sy.u, sx.l, sx.u),
                    !.variance = Crop(var.val, sy.l, sy.u, sx.l, sx.u)]

\* A with A[yo:yp, xo:xp] = block
Assign(A, block, yo, yp, xo, xp) ==
    array([y \in 1..Rows(A) |-> [x \in 1..Cols(A) |->
        IF yo <= y - 1 /\ y - 1 < yp /\ xo <= x - 1 /\ x - 1 < xp
        THEN At(block, y - 1 - yo, x - 1 - xo)
        ELSE A[y][x]]])

\* the plane of the frame had rep been a view of data[y1:y2, x1:x2] (rf = 1 and
\* no np.repeat): the shift in place writes through to the frame
WrittenThroughView(hdu, plane, f, sy, sx) ==
    IF f = 1 /\ Shifted(hdu, plane, f, sy, sx).exc = "none"
    THEN Assign(hdu[plane], Shifted(hdu, plane, f, sy, sx).val, sy.c1, sy.c2, sx.c1, sx.c2)
    ELSE hdu[plane]

\* the plane of the frame after the loop body has shifted its rep (or variance)
\* in place: np.repeat returns a new array, also for rf = 1, so the assignments of
\* lines 290-293 do not reach hdu[...].data
Written(hdu, plane, f, sy, sx) == hdu[plane]

\* the frames after the body of the tile loop: outs and variances are rebuilt by
\* np.array, so the combiner (overwrite_input=True) does not reach them either
FramesAfter(frames, stacked, f, sy, sx) ==
    [k \in 1..Len(frames) |->
        IF \E j \in 1..Len(stacked) : stacked[j] = k
        THEN [frames[k] EXCEPT !.image = Written(frames[k], "image", f, sy, sx),
                               !.variance = Written(frames[k], "variance", f, sy, sx)]
        ELSE frames[k]]

-----------------------------------------------------------------------------
(* shift(): the inputs *)

MaxFrames == 3

MaxRF == 2

\* a frame on the reference grid: image and variance planes of the reference
\* shape, and the pixel displacement c = c2 - c1 its coordinate transform gives
\* for the rate.  kind 1: finite pixels; kind 2: nan at the same pixels of both
\* planes (masked); kind 3: nan in the image only and some zero variances.
ImagePixel(kind, k, y, x) ==
    IF kind # 1 /\ (3 * y + 5 * x + k) % 4 = 0 THEN nan
    ELSE I(((y * y + 3 * x + 2 * k) % 7) - 2)

VariancePixel(kind, k, y, x) ==
    IF kind = 2 /\ (3 * y + 5 * x + k) % 4 = 0 THEN nan
    ELSE IF kind = 3 /\ (y + x + k) % 3 = 0 THEN I(0)
    ELSE I(1 + ((y + 2 * x + k) % 3))

Frame(kind, k, shp, c) ==
    [image |-> array([y \in 1..shp[1] |-> [x \in 1..shp[2] |->
                         ImagePixel(kind, k, y - 1, x - 1)]]),
     variance |-> array([y \in 1..shp[1] |-> [x \in 1..shp[2] |->
                         VariancePixel(kind, k, y - 1, x - 1)]]),
     c |-> c]

Modes == {"None", "MEAN", "MEDIAN", "SUM", "MAX", "WEIGHTED_MEDIAN", "DEFAULT", "CLIPPED"}

\* hypotheses, as the pixel displacement per unit of time along x and y
Rates == {<<I(0), I(0)>>, <<I(1), I(-1)>>, <<Q(8, 5), Q(-8, 5)>>, <<I(4), I(0)>>,
          <<I(0), I(-5)>>}

EdgeRates == {<<I(0), I(0)>>, <<I(130), I(0)>>, <<I(0), I(-130)>>, <<I(131), I(0)>>,
              <<I(0), I(-131)>>, <<Q(-131, 2), I(0)>>, <<I(0), I(65)>>}

LongRates == {<<I(130), I(0)>>, <<I(0), I(-130)>>, <<I(65), I(0)>>, <<I(0), I(-65)>>,
              <<I(3), I(-3)>>}

\* n frames of one kind taken at times 1..n, the reference frame at time r (r = 0:
\* the reference is not one of them): frame k is displaced by rate * (k - r)
FrameList(n, kind, shp, rate, r) ==
    [k \in 1..n |-> Frame(kind, k, shp, <<Mul(rate[1], I(k - r)), Mul(rate[2], I(k - r))>>)]

FrameLists(shp, kinds, rates) ==
    {FrameList(q[1], q[2], shp, q[3], q[4]) :
        q \in {q \in (1..MaxFrames) \X kinds \X rates \X (0..MaxFrames) : q[4] <= q[1]}}

Blank == <<>>

InitShift ==
    /\ call = Blank /\ ret = Blank
    /\ rf \in 1..MaxRF
    /\ \/ /\ shape = <<3, 3>>
          /\ section_size \in {2, 1024}
          /\ stacking_mode \in {"MEDIAN", "WEIGHTED_MEDIAN"}
          /\ hdus \in FrameLists(shape, 1..3, Rates)
       \/ /\ shape \in {<<1, 1>>, <<2, 2>>}
          /\ section_size = 1024
          /\ stacking_mode \in {"MEDIAN", "WEIGHTED_MEDIAN"}
          /\ hdus \in FrameLists(shape, {1, 2}, EdgeRates)
       \/ /\ shape = <<2, 2>>
          /\ section_size \in {1, 1024}
          /\ stacking_mode \in Modes
          /\ hdus \in FrameLists(shape, {1}, {<<I(0), I(0)>>, <<I(1), I(-1)>>})
       \/ /\ shape \in {<<197, 1>>, <<1, 197>>}
          /\ section_size = 66
          /\ stacking_mode \in {"MEDIAN", "WEIGHTED_MEDIAN"}
          /\ hdus \in {FrameList(2, 2, shape, rate, r) : rate \in LongRates, r \in {1, 2}}
    /\ image_array = Blank /\ variance_array = Blank /\ writes = Blank
    /\ todo = Blank /\ outs_of = Blank
    /\ outs = Blank /\ variances = Blank /\ stacked_variance = Blank
    /\ pc = "start" /\ exc = "none"

-----------------------------------------------------------------------------
(* shift(): the call *)

\* lines 186-213: the output arrays and the section grids
Enter ==
    /\ pc = "start"
    /\ image_array' = zeros(shape[1], shape[2])
    /\ variance_array' = zeros(shape[1], shape[2])
    /\ writes' = [y \in 1..shape[1] |-> [x \in 1..shape[2] |-> 0]]
    /\ todo' = Tiles(shape, section_size)
    /\ pc' = "tiles"
    /\ UNCHANGED <<call, ret, hdus, shape, rf, stacking_mode, section_size, outs_of,
                   outs, variances, stacked_variance, exc>>

\* lines 214-311: the body of the two tile loops, for the next tile
Tile ==
    /\ pc = "tiles" /\ todo # <<>>
    /\ \E t \in {StackTile(hdus, shape, rf, stacking_mode, section_size,
                            Head(todo)[1], Head(todo)[2])} :
           /\ outs_of' = t.outs_of
           /\ hdus' = FramesAfter(hdus, t.outs_of, rf, t.sy, t.sx)
           /\ outs' = t.outs /\ variances' = t.variances
           /\ stacked_variance' = t.stacked_variance
           /\ IF t.exc # "none"
              THEN /\ pc' = "raised" /\ exc' = t.exc
                   /\ UNCHANGED <<image_array, variance_array, writes, todo>>
              ELSE /\ image_array' = Assign(image_array, t.image, t.sy.o, t.sy.p, t.sx.o, t.sx.p)
                   /\ variance_array' =
                          Assign(variance_array, t.variance, t.sy.o, t.sy.p, t.sx.o, t.sx.p)
                   /\ writes' = [y \in 1..shape[1] |-> [x \in 1..shape[2] |->
                          IF /\ t.sy.o <= y - 1 /\ y - 1 < t.sy.p
                             /\ t.sx.o <= x - 1 /\ x - 1 < t.sx.p
                          THEN writes[y][x] + 1 ELSE writes[y][x]]]
                   /\ todo' = Tail(todo)
                   /\ UNCHANGED <<pc, exc>>
    /\ UNCHANGED <<call, ret, shape, rf, stacking_mode, section_size>>

\* lines 312-318: the HDUList of the two output arrays is returned
Return ==
    /\ pc = "tiles" /\ todo = <<>>
    /\ pc' = "done"
    /\ UNCHANGED <<call, ret, shift_vars, exc>>

Next == Enter \/ Tile \/ Return

Spec == InitShift /\ [][Next]_vars

-----------------------------------------------------------------------------
(* weighted_quantile(): calls on stacks of one row and two pixels *)

MaxStack == 2

NoShift ==
    /\ hdus = Blank /\ shape = Blank /\ rf = Blank /\ stacking_mode = Blank
    /\ section_size = Blank /\ image_array = Blank /\ variance_array = Blank
    /\ writes = Blank /\ todo = Blank /\ outs_of = Blank
    /\ outs = Blank /\ variances = Blank /\ stacked_variance = Blank

\* the stack whose pixel (0, 0) holds col along axis 0 and whose pixel (0, 1)
\* holds col in reverse order
Stack2(col) ==
    [k \in 1..Len(col) |-> <<<<col[k], col[Len(col) + 1 - k]>>>>]

QuantileCalls ==
    UNION {
        {[values |-> Stack2(v), quantile |-> q, sample_weight |-> Stack2(w)] :
            v \in [1..n -> {nan, I(1), I(2)}],
            w \in [1..n -> {I(0), I(1), inf, nan}],
            q \in {Q(1, 2), Q(50001, 100000)}} : n \in 1..MaxStack}
    \cup UNION {
        {[values |-> Stack2(v), quantile |-> Q(1, 2),
          sample_weight |-> Stack2([k \in 1..n |-> w])] :
            v \in [1..n -> {I(1), I(2), I(3)}], w \in {I(1), I(3)}} :
        n \in 1..(2 * MaxStack + 1)}

InitQuantile ==
    /\ call \in QuantileCalls /\ ret = Blank
    /\ NoShift
    /\ pc = "start" /\ exc = "none"

WeightedQuantile ==
    /\ pc = "start"
    /\ ret' = [exc |-> "none",
               val |-> weighted_quantile(call.values, call.quantile, call.sample_weight)]
    /\ pc' = "returned"
    /\ UNCHANGED <<call, shift_vars, exc>>

NextQuantile == WeightedQuantile

SpecQuantile == InitQuantile /\ [][NextQuantile]_vars

-----------------------------------------------------------------------------
(* shift_rates(): calls with integer arguments *)

MaxRate == 3

MaxStep == 2

RateCalls ==
    {[r_min |-> a[1], r_max |-> a[2], r_step |-> a[3],
      angle_min |-> a[4], angle_max |-> a[5], angle_step |-> a[6]] :
        a \in (0..2) \X (0..MaxRate) \X (1..MaxStep) \X {-1, 0} \X (-1..1) \X (1..MaxStep)}

InitRates ==
    /\ call \in RateCalls /\ ret = Blank
    /\ NoShift
    /\ pc = "start" /\ exc = "none"

ShiftRates ==
    /\ pc = "start"
    /\ ret' = shift_rates(call.r_min, call.r_max, call.r_step,
                          call.angle_min, call.angle_max, call.angle_step)
    /\ pc' = "returned"
    /\ UNCHANGED <<call, shift_vars, exc>>

NextRates == ShiftRates

SpecRates == InitRates /\ [][NextRates]_vars

-----------------------------------------------------------------------------
(* up_sample_2d(), np.repeat and down_sample_2d(): an array is enlarged, and the
   enlargement is binned again *)

MaxRows == 2

MaxFactor == 3

ResampleCalls ==
    UNION {
        {[input_array |-> array([y \in 1..h |-> [x \in 1..w |-> X[<<y, x>>]]]),
          rf |-> f, via |-> "none", enlarged |-> Blank] :
            X \in [(1..h) \X (1..w) -> {nan, I(1), Q(5, 2)}], f \in 1..MaxFactor} :
        <<h, w>> \in (1..MaxRows) \X {1, 2}}

InitResample ==
    /\ call \in ResampleCalls /\ ret = Blank
    /\ NoShift
    /\ pc = "start" /\ exc = "none"

\* lines 270-271: the enlargement shift() makes
Repeat ==
    /\ pc = "start"
    /\ call' = [call EXCEPT !.via = "repeat",
                             !.enlarged = repeat(call.input_array, call.rf)]
    /\ pc' = "enlarged"
    /\ UNCHANGED <<ret, shift_vars, exc>>

\* lines 212 and 264: up_sample_2d into an array of zeros of the enlarged shape
UpSample ==
    /\ pc = "start"
    /\ call' = [call EXCEPT !.via = "up_sample_2d", !.enlarged =
                   up_sample_2d(zeros(call.rf * Rows(call.input_array),
                                      call.rf * Cols(call.input_array)),
                                call.input_array, call.rf)]
    /\ pc' = "enlarged"
    /\ UNCHANGED <<ret, shift_vars, exc>>

DownSample ==
    /\ pc = "enlarged"
    /\ ret' = down_sample_2d(call.enlarged, call.rf)
    /\ pc' = "returned"
    /\ UNCHANGED <<call, shift_vars, exc>>

NextResample == Repeat \/ UpSample \/ DownSample

SpecResample == InitResample /\ [][NextResample]_vars

-----------------------------------------------------------------------------
(* Properties of weighted_quantile *)

Range(s) == {s[i] : i \in 1..Len(s)}

Pixels(A) == (0..(Rows(A) - 1)) \X (0..(Cols(A) - 1))

\* the conventional median of an odd number of finite values: the value with at
\* most (N-1)/2 values below it and at most (N-1)/2 values above it
ConventionalMedian(col) ==
    CHOOSE v \in Range(col) :
        /\ Cardinality({i \in 1..Len(col) : Lt(col[i], v)}) <= (Len(col) - 1) \div 2
        /\ Cardinality({i \in 1..Len(col) : Lt(v, col[i])}) <= (Len(col) - 1) \div 2

EqualWeights(wcol) ==
    /\ \A i \in 1..Len(wcol) : wcol[i] = wcol[1]
    /\ isfinite(wcol[1]) /\ wcol[1][1] > 0

\* the total weight np.nansum sees once the infinite weights are zeroed
TotalWeight(wcol) == nansum([i \in 1..Len(wcol) |-> ZeroInf(wcol[i])])

\* C1: with equal finite positive weights and quantile 0.5, weighted_quantile of
\* an odd number N of values returns, at every pixel, their conventional median
\* (the element at sorted position (N-1)/2).
C1_EqualWeightMedian ==
    (pc = "returned" /\ call.quantile = Q(1, 2) /\ Len(call.values) % 2 = 1) =>
        \A yx \in Pixels(ret.val) :
            LET col == Column(call.values, yx[1], yx[2])
                wcol == Column(call.sample_weight, yx[1], yx[2])
            IN  (EqualWeights(wcol) /\ \A i \in 1..Len(col) : isfinite(col[i])) =>
                    At(ret.val, yx[1], yx[2]) = ConventionalMedian(col)

\* C2: weighted_quantile never raises, and at every pixel whose total weight is
\* zero (all weights zero, or infinite weights zeroed out) it returns not-a-number.
C2_ZeroWeightIsNan ==
    pc = "returned" =>
        /\ ret.exc = "none"
        /\ \A yx \in Pixels(ret.val) :
               TotalWeight(Column(call.sample_weight, yx[1], yx[2])) = I(0) =>
                   isnan(At(ret.val, yx[1], yx[2]))

-----------------------------------------------------------------------------
(* Properties of shift_rates *)

RateArgs(a, b, c, d, e, f) ==
    [r_min |-> a, r_max |-> b, r_step |-> c, angle_min |-> d, angle_max |-> e, angle_step |-> f]

Hypothesis(r, a) == [rate |-> I(r), angle |-> I(a)]

\* C3 as stated: shift_rates(0,1,1,0,0,1) returns exactly the one hypothesis
\* {rate 0, angle 0}, and shift_rates(0,2,1,0,0,1) exactly rate 0, 1, 2 at angle
\* 0, in that order.
C3_OneHypothesis ==
    pc = "returned" =>
        /\ call = RateArgs(0, 1, 1, 0, 0, 1) =>
               ret = [exc |-> "none", val |-> <<Hypothesis(0, 0)>>]
        /\ call = RateArgs(0, 2, 1, 0, 0, 1) =>
               ret = [exc |-> "none",
                      val |-> <<Hypothesis(0, 0), Hypothesis(1, 0), Hypothesis(2, 0)>>]

\* C3, amended: shift_rates(0,1,1,0,0,1) returns exactly the two hypotheses with
\* rate 0 and rate 1 (angle 0), in that order, and shift_rates(0,2,1,0,0,1)
\* exactly the three with rate 0, 1, 2 (angle 0), in that order.
C3_BothEndpoints ==
    pc = "returned" =>
        /\ call = RateArgs(0, 1, 1, 0, 0, 1) =>
               ret = [exc |-> "none", val |-> <<Hypothesis(0, 0), Hypothesis(1, 0)>>]
        /\ call = RateArgs(0, 2, 1, 0, 0, 1) =>
               ret = [exc |-> "none",
                      val |-> <<Hypothesis(0, 0), Hypothesis(1, 0), Hypothesis(2, 0)>>]

C3_Witness == pc = "returned" /\ call = RateArgs(0, 1, 1, 0, 0, 1)

\* round(x) of a finite x >= 0, ties to the even integer as Python rounds
Round(x) ==
    LET fl == x[1] \div x[2]
        twice == 2 * (x[1] % x[2])
    IN  IF twice < x[2] THEN fl
        ELSE IF twice > x[2] THEN fl + 1
        ELSE IF fl % 2 = 0 THEN fl ELSE fl + 1

\* the i-th (from 0) of n values spaced linearly from lo to hi, both included
Spaced(lo, hi, n, i) ==
    IF i = 0 THEN I(lo)
    ELSE IF i = n - 1 THEN I(hi)
    ELSE Add(I(lo), Mul(I(i), Q(hi - lo, n - 1)))

\* C4: for max >= min and step > 0, shift_rates returns the Cartesian product of
\* round((max-min)/step)+1 linearly spaced rates and as many angles by the same
\* rule, both endpoints included, angle in the outer loop and rate in the inner.
C4_RoundedCounts ==
    (pc = "returned" /\ call.r_max >= call.r_min /\ call.angle_max >= call.angle_min) =>
        LET n_rate == Round(Q(call.r_max - call.r_min, call.r_step)) + 1
            n_angle == Round(Q(call.angle_max - call.angle_min, call.angle_step)) + 1
        IN  /\ ret.exc = "none"
            /\ Len(ret.val) = n_angle * n_rate
            /\ \A k \in 1..Len(ret.val) :
                   /\ ret.val[k].rate =
                          Spaced(call.r_min, call.r_max, n_rate, (k - 1) % n_rate)
                   /\ ret.val[k].angle =
                          Spaced(call.angle_min, call.angle_max, n_angle, (k - 1) \div n_rate)

-----------------------------------------------------------------------------
(* Properties of the resampling helpers *)

-----------------------------------------------------------------------------
(* Properties of shift *)

\* the larger of |dx| and |dy| of frame k
Reach(k) == Max2(Abs(PixelShift(hdus[k], rf)[1]), Abs(PixelShift(hdus[k], rf)[2]))

\* the whole frame stacked as one tile
Whole == StackTile(hdus, shape, rf, stacking_mode, Max2(shape[1], shape[2]), 0, 0)

\* C5: with a section_size smaller than the image (several padded tiles) shift
\* produces the same image and variance arrays, pixel for pixel, as with a single
\* tile covering the whole frame, and raises exactly when the single tile does.
C5_TiledEqualsWhole ==
    pc \in {"done", "raised"} =>
        \E w \in {Whole} :
            /\ pc = "done" =>
                   /\ w.exc = "none"
                   /\ image_array = w.image
                   /\ variance_array = w.variance
            /\ pc = "raised" => w.exc = exc

C5_Witness ==
    /\ pc = "done" /\ Len(Tiles(shape, section_size)) = 3
    /\ shape = <<197, 1>> /\ rf = 1
    /\ \E k \in 1..Len(hdus) : PixelShift(hdus[k], rf) = <<0, 130>>
    /\ \E y \in 1..197 : image_array[y][1] # image_array[1][1]

\* the body of the tile loop has run for a tile up to the stacking of its frames
TileStacked ==
    \/ pc = "done"
    \/ pc = "tiles" /\ Len(todo) < Len(Tiles(shape, section_size))
    \/ pc = "raised" /\ exc # "ValueError"

\* C6: within a tile, a frame whose larger shift component is exactly the padding
\* margin 130 is in the tile's stack, a frame one pixel beyond it is not, and every
\* frame within the margin is in the stack.
C6_MarginRetained ==
    TileStacked =>
        \A k \in 1..Len(hdus) :
            /\ Reach(k) = padding => k \in Range(outs_of)
            /\ Reach(k) = padding + 1 => k \notin Range(outs_of)
            /\ Reach(k) < padding => k \in Range(outs_of)

C6_Witness ==
    /\ pc = "done"
    /\ \E k \in Range(outs_of) : Reach(k) = padding
    /\ \E k \in Range(outs_of) : Reach(k) < padding
    /\ \E k \in 1..Len(hdus) : Reach(k) > padding /\ k \notin Range(outs_of)

\* C7: skipping frames never aborts the call: whatever number of frames is
\* skipped, all of them included, shift does not raise for want of the frames
\* it skipped.
C7_SkipNeverAborts ==
    (\E k \in 1..Len(hdus) : Skipped(hdus[k], rf)) =>
        ~(pc = "raised" /\ exc \notin {"ValueError", "TypeError"})

\* C9: with every pixel shift zero and stacking_mode 'MEAN', shift returns the
\* per-pixel mean of the frames; and MEAN, MEDIAN, SUM, MAX and WEIGHTED_MEDIAN
\* are all accepted at the call site that combines the frames.
C9_MeanAndAllCombiners ==
    /\ (stacking_mode = "MEAN" /\ \A k \in 1..Len(hdus) : PixelShift(hdus[k], rf) = <<0, 0>>) =>
           /\ pc # "raised"
           /\ pc = "done" =>
                  \A yx \in Pixels(image_array) :
                      At(image_array, yx[1], yx[2]) =
                          nanmean([k \in 1..Len(hdus) |-> At(hdus[k].image, yx[1], yx[2])])
    /\ stacking_mode \in {"MEAN", "MEDIAN", "SUM", "MAX", "WEIGHTED_MEDIAN"} =>
           ~(pc = "raised" /\ exc = "TypeError")

WindowFits(s) ==
    /\ s.u - s.l = s.p - s.o
    /\ s.c1 + s.l = s.o
    /\ 0 <= s.l /\ s.u <= s.c2 - s.c1

\* C10: the output regions of the tiles are pairwise disjoint and cover the
\* output grid, so no pixel is written twice and after the pass over the tiles
\* every pixel has been written exactly once; the interior window of each padded
\* tile has the shape of its output region and its row l + k is output row o + k.
C10_TilesPartition ==
    pc \in {"tiles", "done", "raised"} =>
        /\ \A y \in 1..shape[1], x \in 1..shape[2] : writes[y][x] <= 1
        /\ pc = "done" => \A y \in 1..shape[1], x \in 1..shape[2] : writes[y][x] = 1
        /\ \A k \in 1..Len(Tiles(shape, section_size)) :
               /\ WindowFits(Section(Tiles(shape, section_size)[k][1], shape[1], section_size))
               /\ WindowFits(Section(Tiles(shape, section_size)[k][2], shape[2], section_size))

C10_Witness ==
    /\ pc = "done" /\ shape = <<3, 3>> /\ section_size = 2
    /\ Len(Tiles(shape, section_size)) = 4
    /\ \A y \in 1..3, x \in 1..3 : writes[y][x] = 1

\* x rounded to the nearest integer, for either sign
Nearest(x) == Sgn(x[1]) * Round(<<Abs(x[1]), x[2]>>)

\* C11: the pixel shift (dx, dy) applied to a frame that is stacked is its pixel
\* displacement multiplied by rf and rounded to the nearest integer, whatever the
\* sign (a scaled displacement of 1.6 gives 2, of -1.6 gives -2).
C11_ShiftRoundsToNearest ==
    TileStacked =>
        \A k \in Range(outs_of) :
            PixelShift(hdus[k], rf) =
                <<Nearest(Mul(I(rf), hdus[k].c[1])), Nearest(Mul(I(rf), hdus[k].c[2]))>>

\* the number, in loop order, of the tile whose body ran last
TileIndex ==
    IF pc = "raised" THEN Len(Tiles(shape, section_size)) - Len(todo) + 1
    ELSE Len(Tiles(shape, section_size)) - Len(todo)

\* rep (or variance) of frame k in that tile as np.repeat returns it, before the shift
Upsampled(k, plane) ==
    LET yx == Tiles(shape, section_size)[TileIndex]
        sy == Section(yx[1], shape[1], section_size)
        sx == Section(yx[2], shape[2], section_size)
    IN  repeat(Crop(hdus[k][plane], sy.c1, sy.c2, sx.c1, sx.c2), rf)

\* B is A moved by (dx, dy), the pixels without a source inside A left as they were
Moved(A, B, dx, dy) ==
    /\ Rows(B) = Rows(A) /\ Cols(B) = Cols(A)
    /\ \A y \in 0..(Rows(A) - 1), x \in 0..(Cols(A) - 1) :
           At(B, y, x) =
               IF /\ 0 <= y - dy /\ y - dy < Rows(A)
                  /\ 0 <= x - dx /\ x - dx < Cols(A)
               THEN At(A, y - dy, x - dx)
               ELSE At(A, y, x)

\* C12: the shift (dx, dy) with |dx| < width and |dy| < height turns an up-sampled
\* array A into a same-shape B with B[y, x] = A[y-dy, x-dx] where that source lies
\* inside the array and B[y, x] = A[y, x] elsewhere (no wrap-around, no fill), and
\* the image and the variance of a frame are shifted alike.
C12_ShiftKeepsStaleEdges ==
    (pc \in {"tiles", "done", "raised"} /\ outs # Blank) =>
        \A j \in 1..Len(outs) :
            \E A \in {Upsampled(outs_of[j], "image")},
               V \in {Upsampled(outs_of[j], "variance")},
               d \in {PixelShift(hdus[outs_of[j]], rf)} :
                (Abs(d[1]) < Cols(A) /\ Abs(d[2]) < Rows(A)) =>
                    /\ Moved(A, outs[j], d[1], d[2])
                    /\ Moved(V, variances[j], d[1], d[2])

C12_Witness ==
    /\ pc = "done" /\ shape = <<3, 3>> /\ rf = 2
    /\ \E j \in 1..Len(outs) :
           /\ PixelShift(hdus[outs_of[j]], rf) = <<2, -2>>
           /\ outs[j] # Upsampled(outs_of[j], "image")
           /\ variances[j] # Upsampled(outs_of[j], "variance")

\* C13: the combined variance at each up-sampled pixel of a tile is the
\* nan-ignoring mean of the stacked frames' variances there divided by the number
\* of stacked frames whose image value there is not nan, whatever the combiner of
\* the image; a pixel with no such frame gets a not-a-number variance, and
\* nothing is raised.
C13_VarianceOfMean ==
    (pc \in {"tiles", "done", "raised"} /\ stacked_variance # Blank) =>
        \A yx \in Pixels(stacked_variance) :
            \E n \in {Len(SelectNotNan(Column(outs, yx[1], yx[2])))} :
                /\ At(stacked_variance, yx[1], yx[2]) =
                       Div(nanmean(Column(variances, yx[1], yx[2])), I(n))
                /\ n = 0 => isnan(At(stacked_variance, yx[1], yx[2]))

====
